---- MODULE Spec2Model ----
(***************************************************************************)
(* Model of streamlit_app.py: a Streamlit dashboard that shows the         *)
(* strategies of one Firestore collection.  A Firestore listener thread    *)
(* (on_snapshot) puts full snapshots of the collection into a process-wide *)
(* queue.Queue; every session's script run (the foreground cycle) checks   *)
(* that queue, takes one snapshot if there is one, and renders the         *)
(* strategies of the selected type.                                        *)
(***************************************************************************)
EXTENDS Integers, Sequences, FiniteSets, TLC

\* ------------------------------------------------------------------ bounds
MaxPublish == 2      \* change notifications delivered in one behaviour
MaxDocs == 2         \* documents in one delivered listing

Sessions == {"s1", "s2"}

\* ------------------------------------------------------- python dictionaries
EmptyDict == [k \in {} |-> ""]

\* d[k] = v on a dict
SetItem(d, k, v) == [x \in (DOMAIN d) \cup {k} |-> IF x = k THEN v ELSE d[x]]

\* the value python's None stands for in d.get(k)
None == "<None>"

\* d.get(k), d.get(k, default)
GetOr(d, k, default) == IF k \in DOMAIN d THEN d[k] ELSE default

\* ------------------------------------------------- the remote collection
\* Documents the store can deliver: doc.id and doc.to_dict().
Documents ==
  { [id |-> "d1", fields |-> [Strategy_Name |-> "B", Strategy_Type |-> "RSI_ONLY",
                              Performance_Metrics |-> EmptyDict]],
    [id |-> "d2", fields |-> [Strategy_Name |-> "A", Strategy_Type |-> "MACD_ONLY",
                              Performance_Metrics |->
                                 [Sharpe_Ratio |-> 50, Profit_Factor |-> 120,
                                  Sortino_Ratio |-> 30, Total_Return |-> 5]]],
    [id |-> "d3", fields |-> EmptyDict] }

\* col_snapshot.documents: a listing of distinct documents
Listings ==
  { l \in UNION { [1..n -> Documents] : n \in 0..MaxDocs } :
      \A i, j \in 1..Len(l) : i # j => l[i].id # l[j].id }

VARIABLES
  client,          \* st.cache_resource entry of get_firestore_client: "none" or "db"
  watch,           \* st.cache_resource entry of setup_firestore_listener: TRUE when
                   \* collection_ref.on_snapshot(on_snapshot) has registered the callback
  update_queue,    \* the queue.Queue of get_update_queue, shared by all sessions
  published,       \* number of notifications the listener thread has handled
  thread_state,    \* the session state the listener thread writes (it has no session)
  session_state,   \* st.session_state of every session: a dict
  pc,              \* where every session's script run stands
  output,          \* what every session's page shows after its last script run
  fresh,           \* fresh[s]: a publish has completed since s last started a run
  picked,          \* picked[s]: the user's pick in the selector started s's last run
  delivered        \* col_snapshot.documents of the last notification

vars == <<client, watch, update_queue, published, thread_state, session_state, pc,
          output, fresh, picked, delivered>>

\* ------------------------------------------------------------- on_snapshot
\* faulty variant: the document id is not attached
RECURSIVE BuildSnapshotNoId(_)
BuildSnapshotNoId(docs) ==
  IF docs = <<>> THEN <<>>
  ELSE (IF DOMAIN Head(docs).fields # {} THEN <<Head(docs).fields>> ELSE <<>>)
         \o BuildSnapshotNoId(Tail(docs))

\* lines 66-71: the records of a listing
RECURSIVE BuildSnapshot(_)
BuildSnapshot(docs) ==
  IF docs = <<>> THEN <<>>
  ELSE LET doc == Head(docs)
           doc_data == doc.fields
       IN (IF DOMAIN doc_data # {}
           THEN <<SetItem(doc_data, "id", doc.id)>>
           ELSE <<>>) \o BuildSnapshot(Tail(docs))

\* update_queue.put(current_data)
QueuePut(q, item) == Append(q, item)

\* faulty variant: the write reaches the state of the sessions that have run
SignalInSessions(thread, sessions) ==
  <<thread, [s \in Sessions |-> IF DOMAIN sessions[s] # {}
                                THEN SetItem(sessions[s], "data_updated", TRUE)
                                ELSE sessions[s]]>>

\* line 76: st.session_state['data_updated'] = True.  The listener thread has no
\* script-run context, so st.session_state is there a state of its own and the
\* write reaches no session: (thread state, session states) after the write
SignalUpdate(thread, sessions) ==
  <<SetItem(thread, "data_updated", TRUE), sessions>>

\* lines 64-76: the listener thread's callback, for one notification
OnSnapshot(col_snapshot) ==
  /\ watch
  /\ published < MaxPublish
  /\ update_queue' = QueuePut(update_queue, BuildSnapshot(col_snapshot))
  /\ LET written == SignalUpdate(thread_state, session_state)
     IN thread_state' = written[1] /\ session_state' = written[2]
  /\ published' = published + 1
  /\ fresh' = [s \in Sessions |-> TRUE]
  /\ delivered' = col_snapshot
  /\ UNCHANGED <<client, watch, pc, output, picked>>

\* ------------------------------------------------------- the script run
\* lines 107-112
InitSessionState(ss) ==
  LET a == IF "strategies_data" \in DOMAIN ss THEN ss
           ELSE SetItem(ss, "strategies_data", <<>>)
      b == IF "selected_strategy_type" \in DOMAIN a THEN a
           ELSE SetItem(a, "selected_strategy_type", "All")
  IN IF "data_updated" \in DOMAIN b THEN b ELSE SetItem(b, "data_updated", FALSE)

\* python's order on the strings that occur (sorted() compares str values)
Lexicographic == <<"", "A", "All", "B", "MACD_ONLY", "RSI_ONLY">>

StrRank(x) == CHOOSE i \in 1..Len(Lexicographic) : Lexicographic[i] = x

\* sorted(list(S)) for a set of strings
RECURSIVE SortedList(_)
SortedList(S) ==
  IF S = {} THEN <<>>
  ELSE LET m == CHOOSE x \in S : \A y \in S : StrRank(x) <= StrRank(y)
       IN <<m>> \o SortedList(S \ {m})

\* lines 138-140: the options of the selector
AllStrategyTypes(strategies_data) ==
  <<"All">> \o SortedList({ strategies_data[i]["Strategy_Type"] :
                              i \in { j \in 1..Len(strategies_data) :
                                        GetOr(strategies_data[j], "Strategy_Type", "") # "" } })

Range(seq) == { seq[i] : i \in 1..Len(seq) }

\* faulty variant: index is always 0, whatever the session's selected type
SelectboxFirstOption(ss, options, drawn_options) ==
  IF "strategy_type_selector" \notin DOMAIN ss THEN {options[1]}
  ELSE IF options = drawn_options THEN {ss["strategy_type_selector"]}
  ELSE {options[1]} \cup ({ss["strategy_type_selector"]} \cap Range(options))

\* lines 142-147: what st.selectbox returns.  The widget keeps the value stored
\* under its key while its options are the ones it was last drawn with; drawn
\* with other options it is a new widget showing options[index], or (keyed
\* identity) keeps a stored value that is still an option.
SelectboxValues(ss, options, drawn_options) ==
  LET selected == ss["selected_strategy_type"]
      index == IF selected \in Range(options)
               THEN CHOOSE i \in 1..Len(options) : options[i] = selected
               ELSE 1
  IN IF "strategy_type_selector" \notin DOMAIN ss THEN {options[index]}
     ELSE IF options = drawn_options THEN {ss["strategy_type_selector"]}
     ELSE {options[index]} \cup ({ss["strategy_type_selector"]} \cap Range(options))

\* faulty variant: the type test is inverted
FilteredStrategiesInverted(strategies_data, selected_type) ==
  IF selected_type = "All" THEN strategies_data
  ELSE SelectSeq(strategies_data,
                 LAMBDA s : GetOr(s, "Strategy_Type", None) # selected_type)

\* lines 157-164
FilteredStrategies(strategies_data, selected_type) ==
  IF selected_type = "All" THEN strategies_data
  ELSE SelectSeq(strategies_data,
                 LAMBDA s : GetOr(s, "Strategy_Type", None) = selected_type)

\* line 170: sorted(..., key=Strategy_Name or ''), a stable sort
RECURSIVE SortedByName(_)
SortedByName(strategies) ==
  IF strategies = <<>> THEN <<>>
  ELSE LET n == Len(strategies)
           last == strategies[n]
           key(x) == StrRank(GetOr(x, "Strategy_Name", ""))
           front == SortedByName(SubSeq(strategies, 1, n - 1))
       IN SelectSeq(front, LAMBDA x : key(x) <= key(last)) \o <<last>>
            \o SelectSeq(front, LAMBDA x : key(x) > key(last))

\* lines 166-186: the page below the selector
Display(filtered_strategies) ==
  IF filtered_strategies = <<>> THEN [kind |-> "info", items |-> <<>>]
  ELSE [kind |-> "list", items |-> SortedByName(filtered_strategies)]

\* lines 137-189: the script from the selector on, for session s with session
\* state ss, whose selector was last drawn with drawn_options
SelectAndDisplay(s, ss, drawn_options) ==
  LET all_strategy_types == AllStrategyTypes(ss["strategies_data"])
  IN \E selected_type \in SelectboxValues(ss, all_strategy_types, drawn_options) :
       LET drawn == SetItem(ss, "strategy_type_selector", selected_type)
       IN IF selected_type # ss["selected_strategy_type"]
          THEN \* lines 150-152: st.rerun() ends this run and schedules another
               /\ session_state' = [session_state EXCEPT ![s] =
                      SetItem(drawn, "selected_strategy_type", selected_type)]
               /\ pc' = [pc EXCEPT ![s] = "rerun"]
               /\ output' = [output EXCEPT ![s] = [kind |-> "rerun", items |-> <<>>]]
          ELSE /\ session_state' = [session_state EXCEPT ![s] = drawn]
               /\ pc' = [pc EXCEPT ![s] = "idle"]
               /\ output' = [output EXCEPT ![s] =
                      Display(FilteredStrategies(ss["strategies_data"], selected_type))]

\* st.stop(): the run ends, the page shows the error
Stop(s, ss) ==
  /\ session_state' = [session_state EXCEPT ![s] = ss]
  /\ pc' = [pc EXCEPT ![s] = "idle"]
  /\ output' = [output EXCEPT ![s] = [kind |-> "stopped", items |-> <<>>]]

\* lines 27-54: get_firestore_client ends in st.stop() when no client is cached
\* and the client cannot be built
ClientStops(cached, client_ok) == cached = "none" /\ ~client_ok

\* faulty variant: the exception of a failed registration is swallowed
ListenerNeverStops(ss, cached, watch_ok) == FALSE

\* lines 116-121, 86-95: setup_firestore_listener ends in st.stop() when the
\* session has not started a listener, none is cached and registering fails
ListenerStops(ss, cached, watch_ok) ==
  "firestore_listener_started" \notin DOMAIN ss /\ ~cached /\ ~watch_ok

\* lines 98-131: one script run of session s from session state ss0, up to
\* the test of update_queue.empty(), and on to the end when the queue is empty
RunScript(s, ss0) ==
  /\ fresh' = [fresh EXCEPT ![s] = FALSE]
  /\ UNCHANGED <<update_queue, published, thread_state, delivered>>
  /\ \E client_ok \in (IF client = "none" THEN BOOLEAN ELSE {TRUE}),
        watch_ok \in (IF watch THEN {TRUE} ELSE BOOLEAN) :
       IF ClientStops(client, client_ok)
       THEN Stop(s, ss0) /\ UNCHANGED <<client, watch>>
       ELSE LET ss1 == InitSessionState(ss0)
            IN /\ client' = "db"
               /\ IF ListenerStops(ss1, watch, watch_ok)
                  THEN Stop(s, ss1) /\ UNCHANGED watch
                  ELSE LET ss2 == SetItem(ss1, "firestore_listener_started", TRUE)
                       IN /\ watch' = (watch \/ ("firestore_listener_started" \notin DOMAIN ss1
                                                   /\ watch_ok))
                          /\ IF update_queue # <<>>
                             THEN /\ session_state' = [session_state EXCEPT ![s] = ss2]
                                  /\ pc' = [pc EXCEPT ![s] = "get"]
                                  /\ output' = [output EXCEPT ![s] =
                                         [kind |-> "running", items |-> <<>>]]
                             ELSE SelectAndDisplay(s, ss2,
                                     AllStrategyTypes(ss2["strategies_data"]))

\* the browser loads the page, or the user asks for a rerun without touching
\* the selector
Refresh(s) ==
  /\ pc[s] = "idle"
  /\ picked' = [picked EXCEPT ![s] = FALSE]
  /\ RunScript(s, session_state[s])

\* the run that st.rerun() scheduled
ScriptRerun(s) ==
  /\ pc[s] = "rerun"
  /\ picked' = [picked EXCEPT ![s] = FALSE]
  /\ RunScript(s, session_state[s])

\* the user picks another option of the selector drawn on the page
UserSelects(s, option) ==
  /\ pc[s] = "idle"
  /\ output[s].kind \in {"list", "info"}
  /\ option \in Range(AllStrategyTypes(session_state[s]["strategies_data"]))
  /\ option # session_state[s]["strategy_type_selector"]
  /\ picked' = [picked EXCEPT ![s] = TRUE]
  /\ RunScript(s, SetItem(session_state[s], "strategy_type_selector", option))

\* update_queue.get() on a queue holding q: (item, rest)
QueueGet(q) == <<Head(q), Tail(q)>>

\* faulty variant: the new snapshot is appended to the working dataset
DrainedMerged(ss, latest_data) ==
  SetItem(SetItem(ss, "strategies_data", ss["strategies_data"] \o latest_data),
          "data_updated", FALSE)

\* lines 133-135
Drained(ss, latest_data) ==
  SetItem(SetItem(ss, "strategies_data", latest_data), "data_updated", FALSE)

\* lines 133-189: the run goes on from update_queue.get(), which returns only
\* when the queue holds an item
GetAndDisplay(s) ==
  /\ pc[s] = "get"
  /\ update_queue # <<>>
  /\ LET got == QueueGet(update_queue)
     IN /\ update_queue' = got[2]
        /\ SelectAndDisplay(s, Drained(session_state[s], got[1]),
                            AllStrategyTypes(session_state[s]["strategies_data"]))
  /\ UNCHANGED <<client, watch, published, thread_state, fresh, picked, delivered>>

Init ==
  /\ client = "none"
  /\ watch = FALSE
  /\ update_queue = <<>>
  /\ published = 0
  /\ thread_state = EmptyDict
  /\ session_state = [s \in Sessions |-> EmptyDict]
  /\ pc = [s \in Sessions |-> "idle"]
  /\ output = [s \in Sessions |-> [kind |-> "none", items |-> <<>>]]
  /\ fresh = [s \in Sessions |-> FALSE]
  /\ picked = [s \in Sessions |-> FALSE]
  /\ delivered = <<>>

Next ==
  \/ \E l \in Listings : OnSnapshot(l)
  \/ \E s \in Sessions : Refresh(s)
  \/ \E s \in Sessions : ScriptRerun(s)
  \/ \E s \in Sessions : \E option \in Range(Lexicographic) : UserSelects(s, option)
  \/ \E s \in Sessions : GetAndDisplay(s)

Spec == Init /\ [][Next]_vars

\* ------------------------------------------------------- properties
\* the working dataset of session s (empty before the first run sets it)
Data(s) == GetOr(session_state[s], "strategies_data", <<>>)

Selected(s) == GetOr(session_state[s], "selected_strategy_type", "All")

\* this step is session s returning from update_queue.get()
Drains(s) == pc[s] = "get" /\ pc'[s] # "get"

\* C1: coalescing: a drain yields the most recently published snapshot (the
\* last one put) and leaves nothing pending, so of two snapshots published
\* before any drain only the second ever becomes a working dataset.
C1_Coalescing ==
  [][\A s \in Sessions :
       Drains(s) => /\ session_state'[s]["strategies_data"]
                         = update_queue[Len(update_queue)]
                    /\ update_queue' = <<>>]_vars

\* the thresholds the specification states (Sharpe 0.2, profit factor 1.0,
\* Sortino 0.2, total return 1.0 %), in hundredths like the metrics
MinThresholds == [Sharpe_Ratio |-> 20, Profit_Factor |-> 100, Sortino_Ratio |-> 20]
MinTotalReturnPercent == [hundredths |-> 100]

CategoryMatches(R, selected) ==
  selected = "All" \/ GetOr(R, "Strategy_Type", None) = selected

MetricsPass(R) ==
  LET metrics == GetOr(R, "Performance_Metrics", EmptyDict)
  IN /\ {"Sharpe_Ratio", "Profit_Factor", "Sortino_Ratio", "Total_Return"}
          \subseteq DOMAIN metrics
     /\ \A k \in DOMAIN MinThresholds : metrics[k] >= MinThresholds[k]
     /\ metrics["Total_Return"] * 100 >= MinTotalReturnPercent.hundredths

Rendered(s) == output[s].kind \in {"list", "info"}

C3_NeverBlocks ==
  \A s \in Sessions : pc[s] = "get" => update_queue # <<>>

\* C4: a run of session s that starts after a publish completed (fresh[s]) and
\* reaches the drain finds a snapshot to take.
C4_PublishVisible ==
  [][\A s \in Sessions :
       ( /\ pc[s] # "get"
         /\ fresh[s] /\ ~fresh'[s]
         /\ "firestore_listener_started" \in DOMAIN session_state'[s] )
       => pc'[s] = "get"]_vars

\* C5: the queue holds at most one unread snapshot, the most recently published
\* one (the last element of the queue is the latest publish).
C5_CapacityOne ==
  /\ Len(update_queue) <= 1
  /\ update_queue # <<>> => Head(update_queue) = update_queue[Len(update_queue)]

\* C6: a run that stops at client or listener setup leaves the session without
\* firestore_listener_started, without a drained dataset and with nothing
\* rendered; a session that drains, filters or renders has a registered
\* subscription and a client.
C6_HaltOnSetupFailure ==
  \A s \in Sessions :
    /\ output[s].kind = "stopped" =>
         /\ "firestore_listener_started" \notin DOMAIN session_state[s]
         /\ pc[s] = "idle"
         /\ Data(s) = <<>>
         /\ output[s].items = <<>>
    /\ (output[s].kind \in {"running", "rerun", "list", "info"} \/ pc[s] # "idle") =>
         /\ client = "db"
         /\ watch
         /\ "firestore_listener_started" \in DOMAIN session_state[s]

C6_Witness ==
  \E s, t \in Sessions :
    /\ output[s].kind = "stopped"
    /\ client = "db"
    /\ "strategies_data" \in DOMAIN session_state[s]
    /\ output[t].kind = "stopped"
    /\ "strategies_data" \notin DOMAIN session_state[t]

\* this step is session s draining in a run the user's pick did not start
DrainsUnpicked(s) == Drains(s) /\ ~picked[s]

C8_DrainReplaces ==
  [][\A s \in Sessions :
       IF Drains(s)
       THEN /\ Len(update_queue') = Len(update_queue) - 1
            /\ update_queue = <<Data(s)'>> \o update_queue'
       ELSE Data(s)' = Data(s)]_vars

C8_Witness ==
  \E s \in Sessions :
    /\ published = 2
    /\ update_queue = <<>>
    /\ Len(Data(s)) = 1
    /\ Data(s)[1]["id"] = "d2"
    /\ Len(delivered) = 1 /\ delivered[1].id = "d2"
    /\ \A t \in Sessions \ {s} : "strategies_data" \notin DOMAIN session_state[t]

C10_EveryDocument ==
  [][published' # published =>
       LET snapshot == update_queue'[Len(update_queue')]
       IN /\ Len(update_queue') = Len(update_queue) + 1
          /\ Len(snapshot) = Len(delivered')
          /\ \A i \in 1..Len(snapshot) :
               /\ DOMAIN snapshot[i] = DOMAIN delivered'[i].fields \cup {"id"}
               /\ snapshot[i]["id"] = delivered'[i].id
               /\ \A k \in DOMAIN delivered'[i].fields \ {"id"} :
                    snapshot[i][k] = delivered'[i].fields[k]]_vars

\* C10 amended: ... one record for every document of the listing that has at
\* least one field; documents without fields are left out.
C10_EveryNonEmptyDocument ==
  [][published' # published =>
       LET snapshot == update_queue'[Len(update_queue')]
           kept == SelectSeq(delivered', LAMBDA d : DOMAIN d.fields # {})
       IN /\ Len(update_queue') = Len(update_queue) + 1
          /\ Len(snapshot) = Len(kept)
          /\ \A i \in 1..Len(snapshot) :
               /\ DOMAIN snapshot[i] = DOMAIN kept[i].fields \cup {"id"}
               /\ snapshot[i]["id"] = kept[i].id
               /\ \A k \in DOMAIN kept[i].fields \ {"id"} :
                    snapshot[i][k] = kept[i].fields[k]]_vars

C10_Witness ==
  /\ Len(delivered) = 2
  /\ delivered[1].id = "d3"
  /\ update_queue # <<>>
  /\ Len(update_queue[Len(update_queue)]) = 1
  /\ update_queue[Len(update_queue)][1]["id"] = delivered[2].id
====
